---- MODULE Spec2Model ----
(***************************************************************************)
(* Model of tools/skillc.py, the ReviewFirst SkillScript POC compiler.     *)
(* A str is a sequence of one-character strings; a document is the         *)
(* sequence of lines content.splitlines() yields.                          *)
(***************************************************************************)
EXTENDS Integers, Sequences, FiniteSets, TLC

\* ------------------------------------------------------------ characters

\* The whitespace str.strip() and the regex class \s remove that can occur
\* inside one line of splitlines().
Whitespace == {" ", "\t"}

Upper == {"A", "B", "C", "D", "E", "F", "G", "H", "I", "J", "K", "L", "M",
          "N", "O", "P", "Q", "R", "S", "T", "U", "V", "W", "X", "Y", "Z"}

Lower == {"a", "b", "c", "d", "e", "f", "g", "h", "i", "j", "k", "l", "m",
          "n", "o", "p", "q", "r", "s", "t", "u", "v", "w", "x", "y", "z"}

Digit == {"0", "1", "2", "3", "4", "5", "6", "7", "8", "9"}

\* The characters of the model in code-point order (str comparison in sorted()).
CodePoints == <<"\t", " ", "\"", "(", ")", "+", ",", "/",
                "0", "1", "2", "3", "4", "5", "6", "7", "8", "9", ":", "=",
                "A", "B", "C", "D", "E", "F", "G", "H", "I", "J", "K", "L", "M",
                "N", "O", "P", "Q", "R", "S", "T", "U", "V", "W", "X", "Y", "Z",
                "\\", "_",
                "a", "b", "c", "d", "e", "f", "g", "h", "i", "j", "k", "l", "m",
                "n", "o", "p", "q", "r", "s", "t", "u", "v", "w", "x", "y", "z">>

ord(c) == CHOOSE i \in 1..Len(CodePoints) : CodePoints[i] = c

\* --------------------------------------------------------------- str ops

\* s[a-1:b]: the characters at the 1-based positions a..b, clamped to s as
\* Python clamps a slice
Slice(s, a, b) ==
    LET lo == IF a < 1 THEN 1 ELSE a
        hi == IF b > Len(s) THEN Len(s) ELSE b
    IN  IF lo > hi THEN <<>> ELSE SubSeq(s, lo, hi)

\* str.lstrip()
RECURSIVE LStrip(_)
LStrip(s) == IF s # <<>> /\ Head(s) \in Whitespace THEN LStrip(Tail(s)) ELSE s

\* str.rstrip()
RECURSIVE RStrip(_)
RStrip(s) ==
    IF s # <<>> /\ s[Len(s)] \in Whitespace THEN RStrip(Slice(s, 1, Len(s) - 1)) ELSE s

\* str.strip()
Strip(s) == RStrip(LStrip(s))

\* str.startswith(p)
StartsWith(s, p) == Len(s) >= Len(p) /\ Slice(s, 1, Len(p)) = p

\* str.endswith(p)
EndsWith(s, p) == Len(s) >= Len(p) /\ Slice(s, Len(s) - Len(p) + 1, Len(s)) = p

\* str.removeprefix(p)
RemovePrefix(s, p) == IF StartsWith(s, p) THEN Slice(s, Len(p) + 1, Len(s)) ELSE s

\* positions at which character c occurs in s
Positions(s, c) == {i \in 1..Len(s) : s[i] = c}

Min(S) == CHOOSE x \in S : \A y \in S : x <= y

Max(S) == CHOOSE x \in S : \A y \in S : x >= y

\* s.split(c, 1)[0]
SplitFirst(s, c) ==
    IF Positions(s, c) = {} THEN s ELSE Slice(s, 1, Min(Positions(s, c)) - 1)

\* str.replace(c, r) for a one-character c
RECURSIVE Replace(_, _, _)
Replace(s, c, r) ==
    IF s = <<>> THEN <<>>
    ELSE (IF Head(s) = c THEN r ELSE <<Head(s)>>) \o Replace(Tail(s), c, r)

\* a < b for str, as sorted() compares
RECURSIVE StrLess(_, _)
StrLess(a, b) ==
    IF b = <<>> THEN FALSE
    ELSE IF a = <<>> THEN TRUE
    ELSE IF Head(a) = Head(b) THEN StrLess(Tail(a), Tail(b))
    ELSE ord(Head(a)) < ord(Head(b))

\* sorted(S) for a set of str
RECURSIVE Sorted(_)
Sorted(S) ==
    IF S = {} THEN <<>>
    ELSE LET m == CHOOSE x \in S : \A y \in S \ {x} : StrLess(x, y)
         IN  <<m>> \o Sorted(S \ {m})

\* sep.join(parts)
RECURSIVE Join(_, _)
Join(sep, parts) ==
    IF parts = <<>> THEN <<>>
    ELSE IF Len(parts) = 1 THEN parts[1]
    ELSE parts[1] \o sep \o Join(sep, Tail(parts))

\* ------------------------------------------------------- module constants

PUBLIC == <<"p", "u", "b", "l", "i", "c">>

PRIVATE == <<"p", "r", "i", "v", "a", "t", "e">>

TESTS == <<"t", "e", "s", "t", "s">>

\* the alternation of SECTION_PATTERN, with the name group(1) returns
SectionNames == {PUBLIC, PRIVATE, TESTS}

DOC_HEADER_KEYS ==
    {<<"i", "n", "t", "e", "n", "t">>, <<"i", "n", "p", "u", "t", "s">>, <<"e", "r", "r", "o", "r", "s">>, <<"e", "f", "f", "e", "c", "t", "s">>, <<"r", "e", "q", "u", "i", "r", "e", "s">>, <<"e", "n", "s", "u", "r", "e", "s">>}

DOC_MARKER == <<"/", "/", "/">>

PUB_SKILL == <<"p", "u", "b", " ", "s", "k", "i", "l", "l">>

STEPS_MARKER == <<"s", "t", "e", "p", "s", ":">>

DO_PRINTLN == <<"d", "o", " ", "c", "o", "n", "s", "o", "l", "e", ".", "p", "r", "i", "n", "t", "l", "n">>

RETURN_KW == <<"r", "e", "t", "u", "r", "n">>

QUOTE == <<"\"">>

\* -------------------------------------------------------------- failures

NoError == [msg |-> "", detail |-> <<>>]

\* fail(message): the SystemExit raised; detail is the formatted part of the message
fail(message, detail) == [msg |-> message, detail |-> detail]

E_OUTSIDE == "declarations outside of public/private/tests sections"

E_ORDER == "top-level sections must begin with public: then private:"

E_DUPLICATE == "duplicate top-level sections are not allowed"

E_NAME == "exported skill name must be PascalCase"

E_NO_SKILL == "public section must include a pub skill"

E_HEADERS == "missing required doc headers: "

E_NO_STEPS == "pub skill must include a steps: block"

E_SYNTAX == "invalid do console.println syntax"

E_LITERAL == "console.println only supports string literals in POC"

E_UNSUPPORTED == "unsupported statement in steps block: "

E_EMPTY == "steps block must include at least one do console.println statement"

E_NO_ENTRY == "entry file does not exist: "

E_NO_COMPILER == "gcc/cc compiler not found on PATH"

E_COMPILE == "native compile failed: "

\* -------------------------------------------------------- split_sections

\* SECTION_PATTERN.match(s): ^(public|private|tests):\s*$
SectionMatch(s) ==
    {n \in SectionNames :
        /\ StartsWith(s, n \o <<":">>)
        /\ \A i \in (Len(n) + 2)..Len(s) : s[i] \in Whitespace}

EmptyDict == [n \in {} |-> <<>>]

\* d[k] = v
DictSet(d, k, v) == [n \in DOMAIN d \cup {k} |-> IF n = k THEN v ELSE d[n]]

\* d.get(k, default)
DictGet(d, k, default) == IF k \in DOMAIN d THEN d[k] ELSE default

NoSection == <<>>

SplitStart ==
    [sections |-> EmptyDict, current |-> NoSection, ordered_sections |-> <<>>,
     error |-> NoError]

\* SplitLine with the lines of every section taken into the public section
SplitLineIntoPublic(st, raw_line) ==
    LET section_match == SectionMatch(Strip(raw_line)) IN
    IF section_match # {}
    THEN LET name == CHOOSE n \in section_match : TRUE IN
         [st EXCEPT !.current = name,
                    !.ordered_sections = Append(@, name),
                    !.sections = IF name = PUBLIC \/ PUBLIC \notin DOMAIN @
                                 THEN DictSet(@, name, <<>>) ELSE @]
    ELSE IF st.current = NoSection
    THEN IF Strip(raw_line) # <<>>
         THEN [st EXCEPT !.error = fail(E_OUTSIDE, <<>>)]
         ELSE st
    ELSE [st EXCEPT !.sections = DictSet(@, PUBLIC, Append(DictGet(@, PUBLIC, <<>>), raw_line))]

\* one iteration of the for loop of split_sections
SplitLine(st, raw_line) ==
    LET section_match == SectionMatch(Strip(raw_line)) IN
    IF section_match # {}
    THEN LET name == CHOOSE n \in section_match : TRUE IN
         [st EXCEPT !.current = name,
                    !.ordered_sections = Append(@, name),
                    !.sections = DictSet(@, name, <<>>)]
    ELSE IF st.current = NoSection
    THEN IF Strip(raw_line) # <<>>
         THEN [st EXCEPT !.error = fail(E_OUTSIDE, <<>>)]
         ELSE st
    ELSE [st EXCEPT !.sections = DictSet(@, st.current, Append(@[st.current], raw_line))]

\* set(ordered_sections)
Range(seq) == {seq[i] : i \in 1..Len(seq)}

\* SplitCheck comparing only the first section name
SplitCheckFirstOnly(ordered_sections) ==
    IF Slice(ordered_sections, 1, 1) # <<PUBLIC>>
    THEN fail(E_ORDER, <<>>)
    ELSE IF Len(ordered_sections) # Cardinality(Range(ordered_sections))
    THEN fail(E_DUPLICATE, <<>>)
    ELSE NoError

\* SplitCheck without the duplicate check
SplitCheckNoDuplicates(ordered_sections) ==
    IF Slice(ordered_sections, 1, 2) # <<PUBLIC, PRIVATE>>
    THEN fail(E_ORDER, <<>>)
    ELSE NoError

\* the two checks after the loop of split_sections
SplitCheck(ordered_sections) ==
    IF Slice(ordered_sections, 1, 2) # <<PUBLIC, PRIVATE>>
    THEN fail(E_ORDER, <<>>)
    ELSE IF Len(ordered_sections) # Cardinality(Range(ordered_sections))
    THEN fail(E_DUPLICATE, <<>>)
    ELSE NoError

RECURSIVE SplitLoop(_, _, _)
SplitLoop(st, content, i) ==
    IF i > Len(content) \/ st.error # NoError THEN st
    ELSE SplitLoop(SplitLine(st, content[i]), content, i + 1)

\* split_sections(content): the error raised (NoError if none) and the table returned
split_sections(content) ==
    LET st == SplitLoop(SplitStart, content, 1)
        err == IF st.error # NoError THEN st.error ELSE SplitCheck(st.ordered_sections)
    IN  [error |-> err,
         returned |-> err = NoError,
         sections |-> IF err = NoError THEN st.sections ELSE EmptyDict]

\* ------------------------------------------------------- extract_program

IsAlnum(c) == c \in Upper \cup Lower \cup Digit

\* end of the longest run of characters satisfying class that starts at i (i - 1 if none)
RECURSIVE RunEnd(_, _, _)
RunEnd(s, i, class) ==
    IF i <= Len(s) /\ s[i] \in class THEN RunEnd(s, i + 1, class) ELSE i - 1

\* re.search(r"pub skill\s+([A-Z][A-Za-z0-9]*)", s): the start positions that match
NameMatches(s) ==
    {i \in 1..Len(s) :
        /\ Slice(s, i, i + Len(PUB_SKILL) - 1) = PUB_SKILL
        /\ LET w == RunEnd(s, i + Len(PUB_SKILL), Whitespace) IN
           /\ w >= i + Len(PUB_SKILL)
           /\ w + 1 <= Len(s)
           /\ s[w + 1] \in Upper}

\* name_match.group(1) of the leftmost match
NameGroup(s) ==
    LET i == Min(NameMatches(s))
        w == RunEnd(s, i + Len(PUB_SKILL), Whitespace)
    IN  Slice(s, w + 1, RunEnd(s, w + 1, Upper \cup Lower \cup Digit))

ScanStart ==
    [doc_headers |-> {}, skill_line_idx |-> -1, skill_name |-> <<>>,
     error |-> NoError, brk |-> FALSE]

\* one iteration of the doc-header / declaration loop (idx is 0-based)
ScanLine(st, idx, line) ==
    LET stripped == Strip(line) IN
    IF StartsWith(stripped, DOC_MARKER)
    THEN LET cleaned == Strip(RemovePrefix(stripped, DOC_MARKER))
             key == Strip(SplitFirst(cleaned, ":"))
         IN  IF Positions(cleaned, ":") # {} /\ key \in DOC_HEADER_KEYS
             THEN [st EXCEPT !.doc_headers = @ \cup {key}]
             ELSE st
    ELSE IF StartsWith(stripped, PUB_SKILL)
    THEN IF NameMatches(stripped) = {}
         THEN [st EXCEPT !.skill_line_idx = idx, !.error = fail(E_NAME, <<>>)]
         ELSE [st EXCEPT !.skill_line_idx = idx, !.skill_name = NameGroup(stripped),
                         !.brk = TRUE]
    ELSE st

\* if skill_line_idx < 0: fail(...)
DeclCheck(skill_line_idx) ==
    IF skill_line_idx < 0 THEN fail(E_NO_SKILL, <<>>) ELSE NoError

\* HeaderCheck naming the missing keys in the order DOC_HEADER_KEYS lists them
HeaderCheckUnsorted(doc_headers) ==
    LET missing_headers == DOC_HEADER_KEYS \ doc_headers
        in(k) == k \in missing_headers
        listed == <<<<"i", "n", "t", "e", "n", "t">>, <<"i", "n", "p", "u", "t", "s">>, <<"e", "r", "r", "o", "r", "s">>, <<"e", "f", "f", "e", "c", "t", "s">>, <<"r", "e", "q", "u", "i", "r", "e", "s">>, <<"e", "n", "s", "u", "r", "e", "s">>>>
    IN
    IF missing_headers # {}
    THEN fail(E_HEADERS, Join(<<",", " ">>, SelectSeq(listed, in)))
    ELSE NoError

\* missing_headers and the failure naming them
HeaderCheck(doc_headers) ==
    LET missing_headers == DOC_HEADER_KEYS \ doc_headers IN
    IF missing_headers # {}
    THEN fail(E_HEADERS, Join(<<",", " ">>, Sorted(missing_headers)))
    ELSE NoError

\* the test of the steps: search loop
IsStepsMarker(line) == Strip(line) = STEPS_MARKER

\* if steps_start < 0: fail(...)
StepsCheck(steps_start) ==
    IF steps_start < 0 THEN fail(E_NO_STEPS, <<>>) ELSE NoError

\* re.search(r"\((.*)\)\s*$", stmt): the closing parenthesis of the match (0 if none)
ArgClose(stmt) ==
    LET closes == {j \in Positions(stmt, ")") :
                      \A k \in (j + 1)..Len(stmt) : stmt[k] \in Whitespace}
    IN  IF closes = {} THEN 0 ELSE Max(closes)

\* the opening parenthesis of the leftmost match (0 if none)
ArgOpen(stmt) ==
    LET opens == {i \in Positions(stmt, "(") : i < ArgClose(stmt)}
    IN  IF opens = {} THEN 0 ELSE Min(opens)

\* msg_match.group(1)
ArgGroup(stmt) == Slice(stmt, ArgOpen(stmt) + 1, ArgClose(stmt) - 1)

\* raw_value.startswith('"') and raw_value.endswith('"')
IsQuoted(raw_value) == StartsWith(raw_value, QUOTE) /\ EndsWith(raw_value, QUOTE)

\* raw_value[1:-1]
Inner(raw_value) == Slice(raw_value, 2, Len(raw_value) - 1)

StmtStart == [print_lines |-> <<>>, error |-> NoError, brk |-> FALSE]

\* StmtLine with a return line skipped instead of ending the loop
StmtLineReturnContinues(st, line) ==
    LET stmt == Strip(line) IN
    IF stmt = <<>> THEN st
    ELSE IF StartsWith(stmt, DO_PRINTLN)
    THEN IF ArgOpen(stmt) = 0
         THEN [st EXCEPT !.error = fail(E_SYNTAX, <<>>)]
         ELSE LET raw_value == Strip(ArgGroup(stmt)) IN
              IF ~IsQuoted(raw_value)
              THEN [st EXCEPT !.error = fail(E_LITERAL, <<>>)]
              ELSE [st EXCEPT !.print_lines = Append(@, Inner(raw_value))]
    ELSE IF StartsWith(stmt, RETURN_KW)
    THEN st
    ELSE [st EXCEPT !.error = fail(E_UNSUPPORTED, stmt)]

\* one iteration of the statement loop
StmtLine(st, line) ==
    LET stmt == Strip(line) IN
    IF stmt = <<>> THEN st
    ELSE IF StartsWith(stmt, DO_PRINTLN)
    THEN IF ArgOpen(stmt) = 0
         THEN [st EXCEPT !.error = fail(E_SYNTAX, <<>>)]
         ELSE LET raw_value == Strip(ArgGroup(stmt)) IN
              IF ~IsQuoted(raw_value)
              THEN [st EXCEPT !.error = fail(E_LITERAL, <<>>)]
              ELSE [st EXCEPT !.print_lines = Append(@, Inner(raw_value))]
    ELSE IF StartsWith(stmt, RETURN_KW)
    THEN [st EXCEPT !.brk = TRUE]
    ELSE [st EXCEPT !.error = fail(E_UNSUPPORTED, stmt)]

\* if not print_lines: fail(...)
EmptyCheck(print_lines) ==
    IF print_lines = <<>> THEN fail(E_EMPTY, <<>>) ELSE NoError

RECURSIVE ScanLoop(_, _, _)
ScanLoop(st, public_lines, idx) ==
    IF idx >= Len(public_lines) \/ st.error # NoError \/ st.brk THEN st
    ELSE ScanLoop(ScanLine(st, idx, public_lines[idx + 1]), public_lines, idx + 1)

RECURSIVE StepsLoop(_, _)
StepsLoop(public_lines, idx) ==
    IF idx >= Len(public_lines) THEN -1
    ELSE IF IsStepsMarker(public_lines[idx + 1]) THEN idx + 1
    ELSE StepsLoop(public_lines, idx + 1)

RECURSIVE StmtLoop(_, _, _)
StmtLoop(st, public_lines, idx) ==
    IF idx >= Len(public_lines) \/ st.error # NoError \/ st.brk THEN st
    ELSE StmtLoop(StmtLine(st, public_lines[idx + 1]), public_lines, idx + 1)

NoProgram == [built |-> FALSE, skill_name |-> <<>>, lines_to_print |-> <<>>]

Failed(err) == [error |-> err, program |-> NoProgram]

\* extract_program on the text of the entry file: the failure raised, or the
\* SkillProgram returned
extract_program(text) ==
    LET split == split_sections(text) IN
    IF split.error # NoError THEN Failed(split.error) ELSE
    LET public_lines == DictGet(split.sections, PUBLIC, <<>>)
        scan == ScanLoop(ScanStart, public_lines, 0)
    IN
    IF scan.error # NoError THEN Failed(scan.error) ELSE
    IF DeclCheck(scan.skill_line_idx) # NoError
    THEN Failed(DeclCheck(scan.skill_line_idx)) ELSE
    IF HeaderCheck(scan.doc_headers) # NoError
    THEN Failed(HeaderCheck(scan.doc_headers)) ELSE
    LET steps_start == StepsLoop(public_lines, scan.skill_line_idx + 1) IN
    IF StepsCheck(steps_start) # NoError THEN Failed(StepsCheck(steps_start)) ELSE
    LET stmts == StmtLoop(StmtStart, public_lines, steps_start) IN
    IF stmts.error # NoError THEN Failed(stmts.error) ELSE
    IF EmptyCheck(stmts.print_lines) # NoError
    THEN Failed(EmptyCheck(stmts.print_lines)) ELSE
    [error |-> NoError,
     program |-> [built |-> TRUE, skill_name |-> scan.skill_name,
                  lines_to_print |-> stmts.print_lines]]

\* ------------------------------------------------------------ generate_c

\* Escape with the two replacements in the other order
EscapeQuoteFirst(line) == Replace(Replace(line, "\"", <<"\\", "\"">>), "\\", <<"\\", "\\">>)

\* line.replace('\\', '\\\\').replace('"', '\\"')
Escape(line) == Replace(Replace(line, "\\", <<"\\", "\\">>), "\"", <<"\\", "\"">>)

PUTS_OPEN == <<" ", " ", " ", " ", "p", "u", "t", "s", "(", "\"">>

PUTS_CLOSE == <<"\"", ")", ";">>

\* f'    puts("{line}");'
PrintCall(escaped) == PUTS_OPEN \o escaped \o PUTS_CLOSE

C_PROLOGUE == <<<<"#", "i", "n", "c", "l", "u", "d", "e", " ", "<", "s", "t", "d", "i", "o", ".", "h", ">">>, <<>>, <<"i", "n", "t", " ", "m", "a", "i", "n", "(", "v", "o", "i", "d", ")", " ", "{">>>>

C_EPILOGUE == <<<<" ", " ", " ", " ", "r", "e", "t", "u", "r", "n", " ", "0", ";">>, <<"}">>>>

\* the lines of c_src that generate_c writes
generate_c(lines_to_print) ==
    C_PROLOGUE
      \o [k \in 1..Len(lines_to_print) |-> PrintCall(Escape(lines_to_print[k]))]
      \o C_EPILOGUE

\* ---------------------------------------------------------------- inputs

\* longest document of the section-structure family
MaxDocLen == 4

\* longest statement list of the steps-block family
MaxStmts == 3

SeqsUpTo(V, n) == UNION {[1..k -> V] : k \in 0..n}

L_PUBLIC == <<"p", "u", "b", "l", "i", "c", ":">>

L_PRIVATE == <<"p", "r", "i", "v", "a", "t", "e", ":">>

L_TESTS == <<"t", "e", "s", "t", "s", ":">>

SectionVocab == {L_PUBLIC, L_PRIVATE, L_TESTS, <<>>, <<"n", "o", "t", "e">>, <<"\t", "p", "r", "i", "v", "a", "t", "e", ":", " ", " ">>}

\* documents that exercise the section structure
SectionDocs == SeqsUpTo(SectionVocab, MaxDocLen)

\* the order in which the header lines of a document are written
KeyOrder == <<<<"i", "n", "t", "e", "n", "t">>, <<"i", "n", "p", "u", "t", "s">>, <<"e", "r", "r", "o", "r", "s">>, <<"e", "f", "f", "e", "c", "t", "s">>, <<"r", "e", "q", "u", "i", "r", "e", "s">>, <<"e", "n", "s", "u", "r", "e", "s">>>>

HeaderLine(key) == DOC_MARKER \o key \o <<":", " ", "v">>

InSet(S, seq) == LET in(x) == x \in S IN SelectSeq(seq, in)

HeaderBlock(S) == LET ks == InSet(S, KeyOrder) IN [k \in 1..Len(ks) |-> HeaderLine(ks[k])]

HeaderVariants ==
    {<<>>, <<<<" ", "/", "/", "/", " ", "r", "e", "q", "u", "i", "r", "e", "s", " ", ":", " ", "y">>>>, <<<<"/", "/", "/", "r", "e", "q", "u", "i", "r", "e", "s">>>>, <<<<"/", "/", "/", "u", "n", "k", "n", "o", "w", "n", ":", " ", "z">>>>}

L_GREET == <<"p", "u", "b", " ", "s", "k", "i", "l", "l", " ", "G", "r", "e", "e", "t">>

DeclVocab ==
    {<<>>, <<L_GREET>>, <<<<"p", "u", "b", " ", "s", "k", "i", "l", "l", " ", "g", "r", "e", "e", "t">>>>, <<<<"p", "u", "b", " ", "s", "k", "i", "l", "l", " ", "l", "o", "w", " ", "p", "u", "b", " ", "s", "k", "i", "l", "l", " ", "U", "p">>>>,
     <<<<" ", " ", "p", "u", "b", " ", "s", "k", "i", "l", "l", " ", "\\", "t", " ", "G", "r", "e", "e", "t", "2", "(", "x", ")", ":">>>>, <<<<"p", "u", "b", " ", "s", "k", "i", "l", "l", "G", "r", "e", "e", "t">>>>}

L_STEPS == <<"s", "t", "e", "p", "s", ":">>

L_HI == <<"d", "o", " ", "c", "o", "n", "s", "o", "l", "e", ".", "p", "r", "i", "n", "t", "l", "n", "(", "\"", "h", "i", "\"", ")">>

L_RETURN == <<"r", "e", "t", "u", "r", "n">>

PostVocab ==
    {<<L_STEPS, L_HI, L_RETURN>>,
     <<<<"/", "/", "/", "r", "e", "q", "u", "i", "r", "e", "s", ":", " ", "l", "a", "t", "e">>, <<" ", " ", "s", "t", "e", "p", "s", ":", " ", " ">>, L_HI>>,
     <<L_STEPS, <<>>, L_HI, <<"d", "o", " ", "c", "o", "n", "s", "o", "l", "e", ".", "p", "r", "i", "n", "t", "l", "n", "(", "\"", "b", "y", "e", "\"", ")">>>>,
     <<L_HI, L_RETURN>>}

TailVocab ==
    {<<>>,
     <<<<"/", "/", "/", "e", "n", "s", "u", "r", "e", "s", ":", " ", "t">>, <<"d", "o", " ", "c", "o", "n", "s", "o", "l", "e", ".", "p", "r", "i", "n", "t", "l", "n", "(", "w", ")">>>>,
     <<<<"s", "e", "c", "r", "e", "t">>, L_TESTS, <<"p", "u", "b", " ", "s", "k", "i", "l", "l", " ", "t">>>>}

StmtVocab ==
    {L_HI,
     <<" ", " ", "d", "o", " ", "c", "o", "n", "s", "o", "l", "e", ".", "p", "r", "i", "n", "t", "l", "n", "(", " ", "\"", "a", "\\", "b", "\"", "c", "\"", " ", ")", " ", " ">>,
     <<"d", "o", " ", "c", "o", "n", "s", "o", "l", "e", ".", "p", "r", "i", "n", "t", "l", "n", "(", "x", ")">>,
     <<"d", "o", " ", "c", "o", "n", "s", "o", "l", "e", ".", "p", "r", "i", "n", "t", "l", "n", "(", "\"", ")">>,
     <<"d", "o", " ", "c", "o", "n", "s", "o", "l", "e", ".", "p", "r", "i", "n", "t", "l", "n", "(", "\"", "a", "\"", " ", "+", " ", "\"", "b", "\"", ")">>,
     <<"d", "o", " ", "c", "o", "n", "s", "o", "l", "e", ".", "p", "r", "i", "n", "t", "l", "n", " ", "\"", "x", "\"">>,
     L_RETURN,
     <<>>,
     <<"l", "e", "t", " ", "x", " ", "=", " ", "1">>}

Assemble(hdr, decl, post, tail) ==
    <<L_PUBLIC>> \o hdr \o decl \o post \o <<L_PRIVATE>> \o tail

\* documents that exercise the doc headers and the declaration line
HeaderDocs ==
    {Assemble(v \o HeaderBlock(S), d, <<L_STEPS, L_HI, L_RETURN>>, <<>>) :
        v \in HeaderVariants, S \in SUBSET DOC_HEADER_KEYS, d \in DeclVocab}

\* documents that exercise what follows the declaration and the other sections
PostDocs ==
    {Assemble(HeaderBlock(S), <<L_GREET>>, p, t) :
        S \in SUBSET DOC_HEADER_KEYS, p \in PostVocab, t \in TailVocab}

\* documents that exercise the steps block
StepsDocs ==
    {Assemble(HeaderBlock(DOC_HEADER_KEYS), <<L_GREET>>, <<L_STEPS>> \o ss, <<>>) :
        ss \in SeqsUpTo(StmtVocab, MaxStmts)}

Documents == SectionDocs \cup HeaderDocs \cup PostDocs \cup StepsDocs

\* ------------------------------------------------------------- cmd_build

VARIABLES
    doc,               \* the lines of the entry file
    pc,                \* the statement of cmd_build / extract_program in progress
    idx,               \* the index of the running loop (0-based)
    sections, current, ordered_sections,                       \* split_sections
    public_lines, doc_headers, skill_line_idx, skill_name,     \* extract_program
    steps_start, print_lines,
    program,           \* the SkillProgram returned by extract_program
    error,             \* the failure that ended the run (NoError if none)
    c_file,            \* the generated source as written
    result,            \* subprocess.run's result in compile_binary
    files,             \* the output files written so far
    stages             \* the stages of cmd_build entered so far

vars == <<doc, pc, idx, sections, current, ordered_sections, public_lines,
          doc_headers, skill_line_idx, skill_name, steps_start, print_lines,
          program, error, c_file, result, files, stages>>

splitVars == <<sections, current, ordered_sections>>

scanVars == <<doc_headers, skill_line_idx, skill_name>>

outVars == <<program, c_file, result, files>>

Init ==
    /\ doc \in Documents
    /\ pc = "start"
    /\ idx = 0
    /\ sections = SplitStart.sections
    /\ current = SplitStart.current
    /\ ordered_sections = SplitStart.ordered_sections
    /\ public_lines = <<>>
    /\ doc_headers = ScanStart.doc_headers
    /\ skill_line_idx = ScanStart.skill_line_idx
    /\ skill_name = ScanStart.skill_name
    /\ steps_start = -1
    /\ print_lines = StmtStart.print_lines
    /\ program = NoProgram
    /\ error = NoError
    /\ c_file = <<>>
    /\ result = [ran |-> FALSE, returncode |-> 0]
    /\ files = {}
    /\ stages = <<>>

Running == error = NoError

\* if not source_path.exists(): fail(...)
CheckEntry ==
    /\ Running /\ pc = "start"
    /\ stages' = Append(stages, "entry")
    /\ \E exists \in BOOLEAN :
          IF exists
          THEN pc' = "read" /\ error' = error
          ELSE pc' = pc /\ error' = fail(E_NO_ENTRY, <<>>)
    /\ UNCHANGED <<doc, idx, splitVars, public_lines, scanVars, steps_start,
                   print_lines, outVars>>

\* program = extract_program(source_path); text = source_path.read_text(...)
ReadText ==
    /\ Running /\ pc = "read"
    /\ stages' = Append(stages, "extract")
    /\ pc' = "split" /\ idx' = 0
    /\ UNCHANGED <<doc, splitVars, public_lines, scanVars, steps_start,
                   print_lines, outVars, error>>

\* one iteration of the loop of split_sections
SplitStep ==
    /\ Running /\ pc = "split" /\ idx < Len(doc)
    /\ LET st == SplitLine([sections |-> sections, current |-> current,
                            ordered_sections |-> ordered_sections, error |-> error],
                           doc[idx + 1])
       IN  /\ sections' = st.sections
           /\ current' = st.current
           /\ ordered_sections' = st.ordered_sections
           /\ error' = st.error
           /\ idx' = IF st.error = NoError THEN idx + 1 ELSE idx
    /\ UNCHANGED <<doc, pc, public_lines, scanVars, steps_start, print_lines,
                   outVars, stages>>

\* the checks after the loop, return sections, public_lines = sections.get(...)
SplitReturn ==
    /\ Running /\ pc = "split" /\ idx = Len(doc)
    /\ error' = SplitCheck(ordered_sections)
    /\ IF SplitCheck(ordered_sections) = NoError
       THEN /\ public_lines' = DictGet(sections, PUBLIC, <<>>)
            /\ pc' = "scan" /\ idx' = 0
       ELSE UNCHANGED <<public_lines, pc, idx>>
    /\ UNCHANGED <<doc, splitVars, scanVars, steps_start, print_lines, outVars, stages>>

\* one iteration of the doc-header / declaration loop
ScanStep ==
    /\ Running /\ pc = "scan" /\ idx < Len(public_lines)
    /\ LET st == ScanLine([ScanStart EXCEPT !.doc_headers = doc_headers],
                          idx, public_lines[idx + 1])
       IN  /\ doc_headers' = st.doc_headers
           /\ skill_line_idx' = st.skill_line_idx
           /\ skill_name' = st.skill_name
           /\ error' = st.error
           /\ pc' = IF st.brk THEN "decl" ELSE pc
           /\ idx' = IF st.brk \/ st.error # NoError THEN idx ELSE idx + 1
    /\ UNCHANGED <<doc, splitVars, public_lines, steps_start, print_lines,
                   outVars, stages>>

\* the loop ran off the end of public_lines
ScanEnd ==
    /\ Running /\ pc = "scan" /\ idx = Len(public_lines)
    /\ pc' = "decl"
    /\ UNCHANGED <<doc, idx, splitVars, public_lines, scanVars, steps_start,
                   print_lines, outVars, error, stages>>

\* if skill_line_idx < 0
CheckDecl ==
    /\ Running /\ pc = "decl"
    /\ error' = DeclCheck(skill_line_idx)
    /\ pc' = IF DeclCheck(skill_line_idx) = NoError THEN "headers" ELSE pc
    /\ UNCHANGED <<doc, idx, splitVars, public_lines, scanVars, steps_start,
                   print_lines, outVars, stages>>

\* if missing_headers
CheckHeaders ==
    /\ Running /\ pc = "headers"
    /\ error' = HeaderCheck(doc_headers)
    /\ IF HeaderCheck(doc_headers) = NoError
       THEN pc' = "steps" /\ idx' = skill_line_idx + 1
       ELSE UNCHANGED <<pc, idx>>
    /\ UNCHANGED <<doc, splitVars, public_lines, scanVars, steps_start,
                   print_lines, outVars, stages>>

\* one iteration of the search for the steps: line
StepsStep ==
    /\ Running /\ pc = "steps" /\ idx < Len(public_lines)
    /\ IF IsStepsMarker(public_lines[idx + 1])
       THEN steps_start' = idx + 1 /\ pc' = "steps_check" /\ idx' = idx
       ELSE steps_start' = steps_start /\ pc' = pc /\ idx' = idx + 1
    /\ UNCHANGED <<doc, splitVars, public_lines, scanVars, print_lines,
                   outVars, error, stages>>

\* the search ran off the end of public_lines
StepsEnd ==
    /\ Running /\ pc = "steps" /\ idx = Len(public_lines)
    /\ pc' = "steps_check"
    /\ UNCHANGED <<doc, idx, splitVars, public_lines, scanVars, steps_start,
                   print_lines, outVars, error, stages>>

\* if steps_start < 0
CheckSteps ==
    /\ Running /\ pc = "steps_check"
    /\ error' = StepsCheck(steps_start)
    /\ IF StepsCheck(steps_start) = NoError
       THEN pc' = "stmts" /\ idx' = steps_start
       ELSE UNCHANGED <<pc, idx>>
    /\ UNCHANGED <<doc, splitVars, public_lines, scanVars, steps_start,
                   print_lines, outVars, stages>>

\* one iteration of the statement loop
StmtStep ==
    /\ Running /\ pc = "stmts" /\ idx < Len(public_lines)
    /\ LET st == StmtLine([StmtStart EXCEPT !.print_lines = print_lines],
                          public_lines[idx + 1])
       IN  /\ print_lines' = st.print_lines
           /\ error' = st.error
           /\ pc' = IF st.brk THEN "empty_check" ELSE pc
           /\ idx' = IF st.brk \/ st.error # NoError THEN idx ELSE idx + 1
    /\ UNCHANGED <<doc, splitVars, public_lines, scanVars, steps_start,
                   outVars, stages>>

\* the statement loop ran off the end of public_lines
StmtEnd ==
    /\ Running /\ pc = "stmts" /\ idx = Len(public_lines)
    /\ pc' = "empty_check"
    /\ UNCHANGED <<doc, idx, splitVars, public_lines, scanVars, steps_start,
                   print_lines, outVars, error, stages>>

\* if not print_lines: fail(...); return SkillProgram(...)
ReturnProgram ==
    /\ Running /\ pc = "empty_check"
    /\ error' = EmptyCheck(print_lines)
    /\ IF EmptyCheck(print_lines) = NoError
       THEN /\ program' = [built |-> TRUE, skill_name |-> skill_name,
                           lines_to_print |-> print_lines]
            /\ pc' = "generate"
       ELSE UNCHANGED <<program, pc>>
    /\ UNCHANGED <<doc, idx, splitVars, public_lines, scanVars, steps_start,
                   print_lines, c_file, result, files, stages>>

\* generate_c(program, c_file)
GenerateC ==
    /\ Running /\ pc = "generate"
    /\ stages' = Append(stages, "generate")
    /\ c_file' = generate_c(program.lines_to_print)
    /\ files' = files \cup {"c"}
    /\ pc' = "compile"
    /\ UNCHANGED <<doc, idx, splitVars, public_lines, scanVars, steps_start,
                   print_lines, program, error, result>>

\* what compile_binary does for a compiler lookup and an exit status
CompileOutcome(found, returncode) ==
    IF ~found THEN fail(E_NO_COMPILER, <<>>)
    ELSE IF returncode # 0 THEN fail(E_COMPILE, <<>>)
    ELSE NoError

\* Compile going on to the manifest whatever the exit status
CompileIgnoresStatus ==
    /\ Running /\ pc = "compile"
    /\ stages' = Append(stages, "compile")
    /\ \E found \in BOOLEAN, returncode \in {0, 1} :
          /\ error' = IF found THEN NoError ELSE fail(E_NO_COMPILER, <<>>)
          /\ result' = IF found THEN [ran |-> TRUE, returncode |-> returncode] ELSE result
          /\ IF found
             THEN pc' = "manifest" /\ files' = files \cup {"binary"}
             ELSE UNCHANGED <<pc, files>>
    /\ UNCHANGED <<doc, idx, splitVars, public_lines, scanVars, steps_start,
                   print_lines, program, c_file>>

\* compile_binary(c_file, output_binary)
Compile ==
    /\ Running /\ pc = "compile"
    /\ stages' = Append(stages, "compile")
    /\ \E found \in BOOLEAN, returncode \in {0, 1} :
          /\ error' = CompileOutcome(found, returncode)
          /\ result' = IF found THEN [ran |-> TRUE, returncode |-> returncode] ELSE result
          /\ IF CompileOutcome(found, returncode) = NoError
             THEN pc' = "manifest" /\ files' = files \cup {"binary"}
             ELSE UNCHANGED <<pc, files>>
    /\ UNCHANGED <<doc, idx, splitVars, public_lines, scanVars, steps_start,
                   print_lines, program, c_file>>

\* build_manifest(...) and manifest_path.write_text(...)
WriteManifest ==
    /\ Running /\ pc = "manifest"
    /\ stages' = Append(stages, "manifest")
    /\ files' = files \cup {"manifest"}
    /\ pc' = "done"
    /\ UNCHANGED <<doc, idx, splitVars, public_lines, scanVars, steps_start,
                   print_lines, program, c_file, result, error>>

Next ==
    \/ CheckEntry
    \/ ReadText
    \/ SplitStep
    \/ SplitReturn
    \/ ScanStep
    \/ ScanEnd
    \/ CheckDecl
    \/ CheckHeaders
    \/ StepsStep
    \/ StepsEnd
    \/ CheckSteps
    \/ StmtStep
    \/ StmtEnd
    \/ ReturnProgram
    \/ GenerateC
    \/ Compile
    \/ WriteManifest

Spec == Init /\ [][Next]_vars

\* ------------------------------------------------ the document, as written
\* What the specification says of a document, read off the document itself
\* and not off the run.

First(S) == IF S = {} THEN 0 ELSE Min(S)

\* the lines that are section headers: trimmed, exactly public:, private: or tests:
DocHeaderPositions(d) ==
    {i \in 1..Len(d) : Strip(d[i]) \in {L_PUBLIC, L_PRIVATE, L_TESTS}}

DocIsHeader(line) == Strip(line) \in {L_PUBLIC, L_PRIVATE, L_TESTS}

\* the section headers in order of appearance
DocHeaderSeq(d) ==
    LET hs == SelectSeq(d, DocIsHeader)
    IN  [k \in 1..Len(hs) |-> Slice(Strip(hs[k]), 1, Len(Strip(hs[k])) - 1)]

\* a non-blank line precedes the first header
DocTextBeforeHeaders(d) ==
    \E i \in 1..Len(d) :
        /\ Strip(d[i]) # <<>>
        /\ \A j \in 1..i : j \notin DocHeaderPositions(d)

StartsPublicPrivate(h) == Len(h) >= 2 /\ h[1] = PUBLIC /\ h[2] = PRIVATE

HasRepeat(h) == \E i, j \in 1..Len(h) : i < j /\ h[i] = h[j]

ValidStructure(d) ==
    /\ ~DocTextBeforeHeaders(d)
    /\ StartsPublicPrivate(DocHeaderSeq(d))
    /\ ~HasRepeat(DocHeaderSeq(d))

\* of a document of valid structure: the public: line and the private: line
PubFrom(d) == Min(DocHeaderPositions(d))

PubTo(d) == Min(DocHeaderPositions(d) \ {PubFrom(d)})

\* the first line of the public section whose trimmed form starts with pub skill
DeclPos(d) ==
    First({i \in (PubFrom(d) + 1)..(PubTo(d) - 1) : StartsWith(Strip(d[i]), PUB_SKILL)})

\* the text right after the leading marker is whitespace and a PascalCase identifier
WellFormedDecl(line) ==
    LET rest == RemovePrefix(Strip(line), PUB_SKILL) IN
    /\ rest # <<>> /\ Head(rest) \in Whitespace
    /\ LStrip(rest) # <<>> /\ Head(LStrip(rest)) \in Upper

\* that identifier
DeclName(line) ==
    LET name == LStrip(RemovePrefix(Strip(line), PUB_SKILL))
    IN  Slice(name, 1, RunEnd(name, 1, Upper \cup Lower \cup Digit))

\* line is a ///key: value line for key
IsHeaderFor(line, key) ==
    LET t == Strip(line) IN
    /\ StartsWith(t, DOC_MARKER)
    /\ \E c \in Positions(t, ":") : Strip(Slice(t, Len(DOC_MARKER) + 1, c - 1)) = key

\* the keys with no header line in the public section before the declaration
MissingKeys(d) ==
    {k \in DOC_HEADER_KEYS :
        \A i \in (PubFrom(d) + 1)..(DeclPos(d) - 1) : ~IsHeaderFor(d[i], k)}

\* the six keys in lexical order
LexOrder == <<<<"e", "f", "f", "e", "c", "t", "s">>, <<"e", "n", "s", "u", "r", "e", "s">>, <<"e", "r", "r", "o", "r", "s">>, <<"i", "n", "p", "u", "t", "s">>, <<"i", "n", "t", "e", "n", "t">>, <<"r", "e", "q", "u", "i", "r", "e", "s">>>>

\* the steps: line and the first return line of the steps block (0 if none)
StepsPos(d) ==
    IF DeclPos(d) = 0 THEN 0
    ELSE First({i \in (DeclPos(d) + 1)..(PubTo(d) - 1) : Strip(d[i]) = STEPS_MARKER})

ReturnPos(d) ==
    IF StepsPos(d) = 0 THEN 0
    ELSE First({i \in (StepsPos(d) + 1)..(PubTo(d) - 1) :
                   StartsWith(Strip(d[i]), RETURN_KW)})

\* the document with the lines after the first return removed from the public section
DocTruncate(d) == Slice(d, 1, ReturnPos(d)) \o Slice(d, PubTo(d), Len(d))

\* the do console.println statements of the steps block before the first return
DocPrintStatements(d) ==
    LET last == IF ReturnPos(d) = 0 THEN PubTo(d) - 1 ELSE ReturnPos(d) - 1
        isPrint(line) == StartsWith(Strip(line), DO_PRINTLN)
    IN  SelectSeq(Slice(d, StepsPos(d) + 1, last), isPrint)

\* the statement has a parenthesized argument closing the line
HasArgument(stmt) ==
    LET s == Strip(stmt) IN
    s # <<>> /\ s[Len(s)] = ")" /\ First(Positions(s, "(")) # 0

\* the trimmed content of the parenthesized argument
DocArgument(stmt) ==
    LET s == Strip(stmt) IN Strip(Slice(s, First(Positions(s, "(")) + 1, Len(s) - 1))

\* an opening quote, a payload without quotes, one closing quote
IsStringLiteral(a) ==
    /\ Len(a) >= 2 /\ a[1] = "\"" /\ a[Len(a)] = "\""
    /\ \A i \in 2..(Len(a) - 1) : a[i] # "\""

\* the text between the opening and the closing quote of the argument
DocInnerText(stmt) == Slice(DocArgument(stmt), 2, Len(DocArgument(stmt)) - 1)

NonLiteralPrint(line) ==
    /\ StartsWith(Strip(line), DO_PRINTLN)
    /\ HasArgument(line)
    /\ ~IsStringLiteral(DocArgument(line))

\* the document with the non-header lines of its private and tests sections removed
RECURSIVE EraseFrom(_, _, _)
EraseFrom(d, i, keep) ==
    IF i > Len(d) THEN <<>>
    ELSE IF DocIsHeader(d[i])
    THEN <<d[i]>> \o EraseFrom(d, i + 1, Strip(d[i]) = L_PUBLIC)
    ELSE (IF keep THEN <<d[i]>> ELSE <<>>) \o EraseFrom(d, i + 1, keep)

DocErase(d) == EraseFrom(d, 1, TRUE)

\* the puts calls of a generated source, in order
IsPutsCall(line) == StartsWith(line, PUTS_OPEN) /\ EndsWith(line, PUTS_CLOSE)

PutsCalls(src) == SelectSeq(src, IsPutsCall)

CallLiteral(call) == Slice(call, Len(PUTS_OPEN) + 1, Len(call) - Len(PUTS_CLOSE))

\* the text a C compiler reads from the body of a string literal: \\ is a
\* backslash, \" a quote; a bare quote or any other escape is not plain text
RECURSIVE Unescape(_)
Unescape(lit) ==
    IF lit = <<>> THEN [ok |-> TRUE, text |-> <<>>]
    ELSE IF Head(lit) = "\""
    THEN [ok |-> FALSE, text |-> <<>>]
    ELSE IF Head(lit) = "\\"
    THEN IF Len(lit) >= 2 /\ lit[2] \in {"\\", "\""}
         THEN LET r == Unescape(Tail(Tail(lit)))
              IN  [ok |-> r.ok, text |-> <<lit[2]>> \o r.text]
         ELSE [ok |-> FALSE, text |-> <<>>]
    ELSE LET r == Unescape(Tail(lit))
         IN  [ok |-> r.ok, text |-> <<Head(lit)>> \o r.text]

Special(s) == Cardinality(Positions(s, "\\") \cup Positions(s, "\""))

\* ------------------------------------------------------------ the run

SplitFailed == pc = "split" /\ error # NoError

SplitEnded == SplitFailed \/ pc \notin {"start", "read", "split"}

\* extract_program has returned or failed
ExtractEnded == program.built \/ (error # NoError /\ pc # "start")

\* what extract_program gave
Outcome == [error |-> IF program.built THEN NoError ELSE error, program |-> program]

StageOrder == <<"entry", "extract", "generate", "compile", "manifest">>

\* ----------------------------------------------------------------- claims

\* C1, as stated: whenever the headers of the document do not start with
\* public then private, split_sections fails with the section-order message.
C1_OrderMessageAlways ==
    (SplitEnded /\ ~StartsPublicPrivate(DocHeaderSeq(doc)))
        => (SplitFailed /\ error.msg = E_ORDER)

\* C1, amended: whenever the headers of the document do not start with public
\* then private, split_sections fails and returns no section table; the message
\* is the section-order one unless a non-blank line precedes the first header,
\* and then it is the declarations-outside one.
C1_BadOrderFails ==
    (SplitEnded /\ ~StartsPublicPrivate(DocHeaderSeq(doc)))
        => /\ SplitFailed
           /\ public_lines = <<>>
           /\ error.msg = IF DocTextBeforeHeaders(doc) THEN E_OUTSIDE ELSE E_ORDER

\* a document with only a public: header has failed the section-order check
C1_Witness ==
    /\ SplitFailed /\ error.msg = E_ORDER
    /\ DocHeaderSeq(doc) = <<PUBLIC>>

\* C2: a document of valid structure with a PascalCase declaration and some
\* key without a header line before it fails naming exactly the missing keys,
\* in lexical order.
C2_MissingHeadersNamed ==
    (/\ ExtractEnded /\ ValidStructure(doc)
     /\ DeclPos(doc) # 0 /\ WellFormedDecl(doc[DeclPos(doc)])
     /\ MissingKeys(doc) # {})
        => /\ ~program.built
           /\ pc = "headers"
           /\ error = fail(E_HEADERS, Join(<<",", " ">>, InSet(MissingKeys(doc), LexOrder)))

\* the run failed naming two missing keys, one of them written only after the
\* declaration
C2_Witness ==
    /\ pc = "headers" /\ error.msg = E_HEADERS
    /\ ValidStructure(doc)
    /\ MissingKeys(doc) = {<<"r", "e", "q", "u", "i", "r", "e", "s">>, <<"e", "f", "f", "e", "c", "t", "s">>}
    /\ \E i \in (DeclPos(doc) + 1)..(PubTo(doc) - 1) : IsHeaderFor(doc[i], <<"r", "e", "q", "u", "i", "r", "e", "s">>)

\* C3, as stated: no print statement whose argument is not a single quoted
\* string literal is accepted, and one that extraction reaches fails with the
\* string-literal message.
C3_NonLiteralRejected ==
    /\ pc \in {"stmts", "empty_check", "generate", "compile", "manifest", "done"}
          => \A k \in steps_start..(idx - 1) : ~NonLiteralPrint(public_lines[k + 1])
    /\ (pc = "stmts" /\ error # NoError /\ NonLiteralPrint(public_lines[idx + 1]))
          => error.msg = E_LITERAL

\* C4: the generated source has one puts call per print statement before the
\* first return, in order; the literal of each call un-escapes to the inner
\* text of its statement, and escaping adds one character per backslash and
\* per quote and nothing else.
C4_CallsMatchStatements ==
    "c" \in files =>
        LET calls == PutsCalls(c_file)
            stmts == DocPrintStatements(doc)
        IN  /\ Len(calls) = Len(stmts)
            /\ \A k \in 1..Len(calls) :
                  /\ Unescape(CallLiteral(calls[k]))
                        = [ok |-> TRUE, text |-> DocInnerText(stmts[k])]
                  /\ Len(CallLiteral(calls[k]))
                        = Len(DocInnerText(stmts[k])) + Special(DocInnerText(stmts[k]))

\* a source with two calls was written, one of its payloads holding a
\* backslash and a quote
C4_Witness ==
    /\ "c" \in files
    /\ Len(program.lines_to_print) = 2
    /\ \E k \in 1..2 : /\ Positions(program.lines_to_print[k], "\\") # {}
                       /\ Positions(program.lines_to_print[k], "\"") # {}
    /\ program.lines_to_print[1] # program.lines_to_print[2]

\* C5: the statement loop never goes past the first return line of the steps
\* block, and extract_program gives what it gives for the document with the
\* lines after that return removed.
C5_ReturnTruncates ==
    ((pc = "stmts" \/ ExtractEnded) /\ ValidStructure(doc) /\ ReturnPos(doc) # 0)
        => /\ pc = "stmts" => idx <= ReturnPos(doc) - PubFrom(doc) - 1
           /\ ExtractEnded => Outcome = extract_program(DocTruncate(doc))

\* a program was returned although an unsupported statement follows the return
C5_Witness ==
    /\ program.built
    /\ ValidStructure(doc) /\ ReturnPos(doc) # 0
    /\ ReturnPos(doc) + 1 < PubTo(doc)
    /\ doc[ReturnPos(doc) + 1] = <<"l", "e", "t", " ", "x", " ", "=", " ", "1">>

\* C6, as stated: a declaration line with a malformed name and missing
\* headers together give the PascalCase failure.
C6_NameErrorFirst ==
    (/\ ExtractEnded /\ ValidStructure(doc)
     /\ DeclPos(doc) # 0 /\ ~WellFormedDecl(doc[DeclPos(doc)])
     /\ MissingKeys(doc) # {})
        => (pc = "scan" /\ error.msg = E_NAME)

\* C7, as stated: the run goes past the name check only if a PascalCase
\* identifier follows the leading marker, and records that identifier;
\* otherwise it fails with the PascalCase message.
C7_NameFollowsMarker ==
    (ValidStructure(doc) /\ DeclPos(doc) # 0)
        => /\ (pc \notin {"start", "read", "split", "scan"})
                => /\ WellFormedDecl(doc[DeclPos(doc)])
                   /\ skill_name = DeclName(doc[DeclPos(doc)])
           /\ (ExtractEnded /\ ~WellFormedDecl(doc[DeclPos(doc)]))
                => (pc = "scan" /\ error.msg = E_NAME)

\* C8, as stated: a document with a repeated header fails with the duplicate
\* message, raised at the repeated header.
C8_DuplicateMessageAlways ==
    (SplitEnded /\ HasRepeat(DocHeaderSeq(doc)))
        => /\ SplitFailed /\ error.msg = E_DUPLICATE
           /\ idx < Len(doc)

\* C8, amended: a document with a repeated header fails in split_sections:
\* with the declarations-outside message if a non-blank line precedes the
\* first header, else with the section-order message if its first two headers
\* are not public, private, else with the duplicate message, raised after the
\* last line was scanned. Every table returned has the header order
\* [public, private] or [public, private, tests].
C8_DuplicatesFail ==
    SplitEnded =>
        /\ HasRepeat(DocHeaderSeq(doc))
              => /\ SplitFailed
                 /\ error.msg = IF DocTextBeforeHeaders(doc) THEN E_OUTSIDE
                                ELSE IF ~StartsPublicPrivate(DocHeaderSeq(doc)) THEN E_ORDER
                                ELSE E_DUPLICATE
                 /\ error.msg = E_DUPLICATE => idx = Len(doc)
        /\ ~SplitFailed
              => ordered_sections \in {<<PUBLIC, PRIVATE>>, <<PUBLIC, PRIVATE, TESTS>>}

\* the duplicate failure was raised for a document repeating tests:
C8_Witness ==
    /\ SplitFailed /\ error.msg = E_DUPLICATE
    /\ DocHeaderSeq(doc) = <<PUBLIC, PRIVATE, TESTS, TESTS>>

\* C9: extract_program gives what it gives for the document with the
\* non-header lines of its private and tests sections removed, so documents
\* that differ only in those lines have the same outcome.
C9_PrivateNotInterpreted ==
    ExtractEnded => Outcome = extract_program(DocErase(doc))

\* a program was returned for a document with lines in its private and tests
\* sections
C9_Witness ==
    /\ program.built
    /\ DocErase(doc) # doc
    /\ Len(DocHeaderSeq(doc)) = 3

\* C10: the stages of cmd_build are entered in the fixed order, each at most
\* once; the generated source is written only with a program extracted, the
\* manifest only after the compiler ran and returned 0; a failure ends the
\* run, and no step removes or rewrites a file already written.
C10_StagesInOrder ==
    /\ [](/\ Len(stages) <= Len(StageOrder)
          /\ stages = Slice(StageOrder, 1, Len(stages))
          /\ "c" \in files => (program.built /\ c_file = generate_c(program.lines_to_print))
          /\ "manifest" \in files
                => (result.ran /\ result.returncode = 0 /\ {"c", "binary"} \subseteq files)
          /\ error # NoError => ~ENABLED Next)
    /\ [][/\ files \subseteq files'
          /\ "c" \in files => c_file' = c_file
          /\ Len(stages') <= Len(stages) + 1]_vars

\* the compiler returned a non-zero status: the generated source stays, no
\* manifest is written
C10_Witness ==
    /\ error.msg = E_COMPILE
    /\ result.ran /\ result.returncode = 1
    /\ files = {"c"}
    /\ stages = <<"entry", "extract", "generate", "compile">>

====
